---- MODULE Spec2Model ----
(***************************************************************************)
(* State-machine model of the page interaction controller of FinSearchComp *)
(* (src/script.js): chart lazy loading and mounting, the findings          *)
(* carousel, the content modal and the image-zoom modal, lazy images and   *)
(* the tab panels.  One action per event handler or promise continuation;  *)
(* the browser (event loop, IntersectionObserver, promises) is the         *)
(* environment that chooses which action happens next and with which       *)
(* input.                                                                  *)
(***************************************************************************)
EXTENDS Integers, Sequences, FiniteSets, TLC

(***************************************************************************)
(* Bounds of the model.                                                    *)
(***************************************************************************)
\* longest batch of entries one IntersectionObserver callback receives
MaxEntries == 2
\* cap on the counted Plotly.Plots.resize calls
MaxResizeCalls == 4
\* largest number of .carousel-item elements (and indicators) on the page
MaxItems == 13
\* number of .card-content cards on the page
NumCards == 2
\* number of images on the page
NumImages == 3
\* number of tab panels
NumPanels == 2

(***************************************************************************)
(* Program constants.                                                      *)
(***************************************************************************)
\* translateX(-${currentIndex * 90}%)
TranslatePct == 90

VARIABLES
    \* ---- page-ready wiring
    pageReady,          \* DOMContentLoaded handler has run
    hasIO,              \* 'IntersectionObserver' in window
    wired,              \* init functions that ran to their end
    lastEvent,          \* the handler or continuation that ran last
    \* ---- chart
    hasContainer,       \* document.getElementById('global-chart') exists
    hasLoadingEl,       \* document.getElementById('chart-loading') exists
    chartMounted,       \* window.__chartMounted
    chartObserved,      \* chartObserver is observing the container
    plotly,             \* the charting library: absent, loading, present, failed
    waiters,            \* .then continuations waiting on loadPlotly()
    loadStarts,         \* library loads started
    newPlotCalls,       \* Plotly.newPlot calls made
    pendingMounts,      \* Plotly.newPlot promises still pending
    mountsResolved,     \* Plotly.newPlot promises that resolved
    chartResizeListeners, \* resize listeners registered by renderGlobalChart
    resizeCalls,        \* Plotly.Plots.resize calls made
    loadingDisplay,     \* style.display of #chart-loading
    \* ---- tabs
    visiblePanels,      \* panels whose visibility flag is true
    lastPanel,          \* the id given to the last activate (0 before any)
    \* ---- carousel
    hasCarousel,        \* .findings-carousel exists
    totalItems,         \* items.length (= number of indicators)
    currentIndex,       \* the carousel cursor
    translateX,         \* leftward translation of the track, in percent
    activeIndicators,   \* indices of the indicators carrying class 'active'
    clicks,             \* the last carousel operations, with the cursor before each
    \* ---- modals
    modalDisplay,       \* #contentModal style.display
    imageModalDisplay,  \* #imageModal style.display
    bodyOverflow,       \* document.body.style.overflow
    modalTitle,         \* #modalTitle textContent
    modalContent,       \* #modalContent innerHTML
    zoomedSrc,          \* #zoomedImage src
    cardText,           \* per card: style of .card-text and label of its button
    modalTrail,         \* the last two modal clicks, with the element clicked
    handlersRun,        \* the listeners the last modal click reached
    openRuns,           \* runs of the modal open sequence during the last click
    \* ---- lazy images
    imgSrc,             \* per image: src (0 when unset)
    imgDataSrc,         \* per image: data-src (0 when the attribute is absent)
    imgClass,           \* per image: subset of {"loading", "loaded"}
    imgObserved,        \* images imageObserver is observing
    imgPending,         \* per image: temporary Images still loading
    imgFetchStarts,     \* per image: temporary Images created
    imgRemoveCalls      \* per image: removeAttribute('data-src') calls

pageVars == <<pageReady, hasIO, wired>>
envVars == <<pageVars, lastEvent>>
chartVars == <<hasContainer, hasLoadingEl, chartMounted, chartObserved, plotly,
               waiters, loadStarts, newPlotCalls, pendingMounts, mountsResolved,
               chartResizeListeners, resizeCalls, loadingDisplay>>
tabVars == <<visiblePanels, lastPanel>>
carouselVars == <<hasCarousel, totalItems, currentIndex, translateX,
                  activeIndicators, clicks>>
modalVars == <<modalDisplay, imageModalDisplay, bodyOverflow, modalTitle,
               modalContent, zoomedSrc, cardText, modalTrail, handlersRun,
               openRuns>>
imageVars == <<imgSrc, imgDataSrc, imgClass, imgObserved, imgPending,
               imgFetchStarts, imgRemoveCalls>>
vars == <<envVars, chartVars, tabVars, carouselVars, modalVars, imageVars>>

(***************************************************************************)
(* The static page: the elements the controller is wired to.               *)
(***************************************************************************)
Cards == 1 .. NumCards
Images == 1 .. NumImages
Panels == 1 .. NumPanels
Indicators == 0 .. (totalItems - 1)

\* the data-card attribute of a card; card 1 is the data-distribution card
DataCard(c) == IF c = 1 THEN "data-distribution" ELSE "finding"
\* .lazy-image elements carry data-src and no src; the others carry src
IsLazy(i) == i % 2 = 1
\* .zoomable-image elements
IsZoomable(i) == i % 3 # 0
LazyImages == {i \in Images : IsLazy(i)}
\* the panel that hosts the chart
ChartPanel == 1

\* the batches of entries an IntersectionObserver callback can receive for
\* one target: isIntersecting of each queued entry, oldest first
EntryBatches == UNION {[1 .. n -> BOOLEAN] : n \in 1 .. MaxEntries}

(***************************************************************************)
(* Chart bootstrapper.                                                     *)
(***************************************************************************)
\* number of entries of the batch with isIntersecting true
IntersectingCount(entries) ==
    Cardinality({k \in DOMAIN entries : entries[k]})

\* loadPlotly(): the library's state after a call that finds it in state p;
\* a load is started only when the library is neither present nor loading
LoadPlotlyState(p) == IF p = "absent" THEN "loading" ELSE p
LoadPlotlyStarts(p) == IF p = "absent" THEN 1 ELSE 0

\* mutant: the container stays observed after the callback fired
StillObservedNoUnobserve(fired) == TRUE

\* chartObserver.unobserve(entry.target) for every entry that fired
StillObserved(fired) == fired = 0

\* the chartObserver callback: every intersecting entry seen while the
\* flag is false calls loadPlotly().then(...) and unobserves the container
ChartObserverCallback(entries) ==
    /\ lastEvent' = "ChartObserverCallback"
    /\ chartObserved
    /\ LET fired == IF chartMounted THEN 0 ELSE IntersectingCount(entries)
       IN  /\ plotly' = IF fired > 0 THEN LoadPlotlyState(plotly) ELSE plotly
           /\ loadStarts' = loadStarts
                            + (IF fired > 0 THEN LoadPlotlyStarts(plotly) ELSE 0)
           /\ waiters' = waiters + fired
           /\ chartObserved' = StillObserved(fired)
    /\ UNCHANGED <<hasContainer, hasLoadingEl, chartMounted, newPlotCalls,
                   pendingMounts, mountsResolved, chartResizeListeners,
                   resizeCalls, loadingDisplay>>
    /\ UNCHANGED <<pageVars, tabVars, carouselVars, modalVars, imageVars>>

\* mutant: the flag is set as soon as Plotly.newPlot has been called
RenderGlobalChartSetsFlag(k) ==
    /\ newPlotCalls' = newPlotCalls + (IF hasContainer THEN k ELSE 0)
    /\ pendingMounts' = pendingMounts + (IF hasContainer THEN k ELSE 0)
    /\ chartResizeListeners' =
           chartResizeListeners + (IF hasContainer THEN k ELSE 0)
    /\ chartMounted' = (chartMounted \/ (hasContainer /\ k > 0))

\* renderGlobalChart() called k times in a row: each call with a container
\* calls Plotly.newPlot (the promise stays pending) and registers one more
\* resize listener; the flag is not touched here
RenderGlobalChart(k) ==
    /\ newPlotCalls' = newPlotCalls + (IF hasContainer THEN k ELSE 0)
    /\ pendingMounts' = pendingMounts + (IF hasContainer THEN k ELSE 0)
    /\ chartResizeListeners' =
           chartResizeListeners + (IF hasContainer THEN k ELSE 0)
    /\ chartMounted' = chartMounted

\* the loading indicator after the continuation's "Hide loading indicator"
HideLoading == IF hasLoadingEl THEN "none" ELSE loadingDisplay

\* the library is there: every waiting continuation runs
\* renderGlobalChart() and hides the loading indicator
LoadPlotlyResolved ==
    /\ lastEvent' = "LoadPlotlyResolved"
    /\ waiters > 0
    /\ plotly \in {"loading", "present"}
    /\ plotly' = "present"
    /\ waiters' = 0
    /\ RenderGlobalChart(waiters)
    /\ loadingDisplay' = HideLoading
    /\ UNCHANGED <<hasContainer, hasLoadingEl, chartObserved, loadStarts,
                   mountsResolved, resizeCalls>>
    /\ UNCHANGED <<pageVars, tabVars, carouselVars, modalVars, imageVars>>

\* the library load fails: the promise rejects, no continuation runs
LoadPlotlyRejected ==
    /\ lastEvent' = "LoadPlotlyRejected"
    /\ plotly = "loading"
    /\ plotly' = "failed"
    /\ waiters' = 0
    /\ UNCHANGED <<hasContainer, hasLoadingEl, chartMounted, chartObserved,
                   loadStarts, newPlotCalls, pendingMounts, mountsResolved,
                   chartResizeListeners, resizeCalls, loadingDisplay>>
    /\ UNCHANGED <<pageVars, tabVars, carouselVars, modalVars, imageVars>>

\* one Plotly.newPlot promise resolves: window.__chartMounted = true
NewPlotResolved ==
    /\ lastEvent' = "NewPlotResolved"
    /\ pendingMounts > 0
    /\ pendingMounts' = pendingMounts - 1
    /\ mountsResolved' = mountsResolved + 1
    /\ chartMounted' = TRUE
    /\ UNCHANGED <<hasContainer, hasLoadingEl, chartObserved, plotly, waiters,
                   loadStarts, newPlotCalls, chartResizeListeners,
                   resizeCalls, loadingDisplay>>
    /\ UNCHANGED <<pageVars, tabVars, carouselVars, modalVars, imageVars>>

\* mutant: a rejection handler that clears the flag
NewPlotRejectedClearsFlag ==
    /\ lastEvent' = "NewPlotRejected"
    /\ pendingMounts > 0
    /\ pendingMounts' = pendingMounts - 1
    /\ chartMounted' = FALSE
    /\ UNCHANGED <<hasContainer, hasLoadingEl, chartObserved, plotly, waiters,
                   loadStarts, newPlotCalls, mountsResolved,
                   chartResizeListeners, resizeCalls, loadingDisplay>>
    /\ UNCHANGED <<pageVars, tabVars, carouselVars, modalVars, imageVars>>

\* one Plotly.newPlot promise rejects: there is no rejection handler
NewPlotRejected ==
    /\ lastEvent' = "NewPlotRejected"
    /\ pendingMounts > 0
    /\ pendingMounts' = pendingMounts - 1
    /\ UNCHANGED <<hasContainer, hasLoadingEl, chartMounted, chartObserved,
                   plotly, waiters, loadStarts, newPlotCalls, mountsResolved,
                   chartResizeListeners, resizeCalls, loadingDisplay>>
    /\ UNCHANGED <<pageVars, tabVars, carouselVars, modalVars, imageVars>>

\* Plotly.Plots.resize calls of the page-level resize listener
PageResizeCalls ==
    IF plotly = "present" /\ hasContainer /\ chartMounted THEN 1 ELSE 0

\* mutant: the listeners of renderGlobalChart resize without the flag test
ChartListenerResizeCallsUnguarded == chartResizeListeners

\* Plotly.Plots.resize calls of the listeners renderGlobalChart registered
ChartListenerResizeCalls == IF chartMounted THEN chartResizeListeners ELSE 0

\* a window resize event: every registered resize listener runs
WindowResize ==
    /\ lastEvent' = "WindowResize"
    /\ resizeCalls + PageResizeCalls + ChartListenerResizeCalls
           <= MaxResizeCalls
    /\ resizeCalls' = resizeCalls + PageResizeCalls + ChartListenerResizeCalls
    /\ UNCHANGED <<hasContainer, hasLoadingEl, chartMounted, chartObserved,
                   plotly, waiters, loadStarts, newPlotCalls, pendingMounts,
                   mountsResolved, chartResizeListeners, loadingDisplay>>
    /\ UNCHANGED <<pageVars, tabVars, carouselVars, modalVars, imageVars>>

(***************************************************************************)
(* Tab controller.                                                         *)
(***************************************************************************)
\* resize requests of activate(p): one when p hosts the chart and the chart
\* is mounted
ActivateResizeCalls(p) == IF p = ChartPanel /\ chartMounted THEN 1 ELSE 0

\* mutant: the other panels are not hidden
PanelsAfterActivateNoHide(visible, p) == visible \cup {p}

\* activate(p) for a known panel: every other panel hidden, p shown
PanelsAfterActivate(visible, p) == (visible \ (Panels \ {p})) \cup {p}

\* activate(p): an unknown id changes nothing; a known panel becomes the
\* only visible one
TabActivate(p) ==
    /\ lastEvent' = "TabActivate"
    /\ pageReady
    /\ IF p \in Panels
       THEN /\ visiblePanels' = PanelsAfterActivate(visiblePanels, p)
            /\ resizeCalls + ActivateResizeCalls(p) <= MaxResizeCalls
            /\ resizeCalls' = resizeCalls + ActivateResizeCalls(p)
       ELSE UNCHANGED <<visiblePanels, resizeCalls>>
    /\ lastPanel' = p
    /\ UNCHANGED <<hasContainer, hasLoadingEl, chartMounted, chartObserved,
                   plotly, waiters, loadStarts, newPlotCalls, pendingMounts,
                   mountsResolved, chartResizeListeners, loadingDisplay>>
    /\ UNCHANGED <<pageVars, carouselVars, modalVars, imageVars>>

(***************************************************************************)
(* Findings carousel.                                                      *)
(***************************************************************************)
\* the % operator of JavaScript: the remainder takes the sign of a
JsRem(a, b) == IF a >= 0 THEN a % b ELSE -((-a) % b)

\* mutant: prev without the "+ totalItems"
PrevIndexNoWrap(c, n) == JsRem(c - 1, n)

\* (currentIndex - 1 + totalItems) % totalItems
PrevIndex(c, n) == JsRem(c - 1 + n, n)

\* mutant: next without the wraparound
NextIndexNoWrap(c, n) == c + 1

\* (currentIndex + 1) % totalItems
NextIndex(c, n) == JsRem(c + 1, n)

\* mutant: the track moves by a whole item
TrackOffsetFull(idx) == idx * 100

\* translateX(-${currentIndex * 90}%)
TrackOffset(idx) == idx * TranslatePct

\* indicators.forEach: add 'active' at the cursor, remove it elsewhere
IndicatorsAfterUpdate(active, idx) ==
    {i \in Indicators : IF i = idx THEN TRUE ELSE FALSE}

\* updateCarousel() with the cursor at idx
UpdateCarousel(idx) ==
    /\ translateX' = TrackOffset(idx)
    /\ activeIndicators' = IndicatorsAfterUpdate(activeIndicators, idx)

\* the record of the last two carousel operations
Remember(op, arg) ==
    LET r == [op |-> op, arg |-> arg, from |-> currentIndex]
    IN  IF Len(clicks) < 2 THEN Append(clicks, r) ELSE <<clicks[2], r>>

\* click on .carousel-prev
ClickPrev ==
    /\ lastEvent' = "ClickPrev"
    /\ "carousel" \in wired
    /\ currentIndex' = PrevIndex(currentIndex, totalItems)
    /\ UpdateCarousel(currentIndex')
    /\ clicks' = Remember("prev", 0)
    /\ UNCHANGED <<hasCarousel, totalItems>>
    /\ UNCHANGED <<pageVars, chartVars, tabVars, modalVars, imageVars>>

\* click on .carousel-next
ClickNext ==
    /\ lastEvent' = "ClickNext"
    /\ "carousel" \in wired
    /\ currentIndex' = NextIndex(currentIndex, totalItems)
    /\ UpdateCarousel(currentIndex')
    /\ clicks' = Remember("next", 0)
    /\ UNCHANGED <<hasCarousel, totalItems>>
    /\ UNCHANGED <<pageVars, chartVars, tabVars, modalVars, imageVars>>

\* click on the indicator at position index
ClickIndicator(index) ==
    /\ lastEvent' = "ClickIndicator"
    /\ "carousel" \in wired
    /\ index \in Indicators
    /\ currentIndex' = index
    /\ UpdateCarousel(currentIndex')
    /\ clicks' = Remember("goTo", index)
    /\ UNCHANGED <<hasCarousel, totalItems>>
    /\ UNCHANGED <<pageVars, chartVars, tabVars, modalVars, imageVars>>

\* mutant: initialization without the initial updateCarousel()
InitFindingsCarouselNoUpdate ==
    /\ currentIndex' = 0
    /\ clicks' = <<>>
    /\ UNCHANGED <<hasCarousel, totalItems, translateX, activeIndicators>>

\* initFindingsCarousel(): nothing without a .findings-carousel; otherwise
\* the cursor starts at 0 and updateCarousel() runs once
InitFindingsCarousel ==
    IF hasCarousel
    THEN /\ currentIndex' = 0
         /\ UpdateCarousel(0)
         /\ clicks' = <<>>
         /\ UNCHANGED <<hasCarousel, totalItems>>
    ELSE UNCHANGED carouselVars

(***************************************************************************)
(* Content modal and image-zoom modal.                                     *)
(***************************************************************************)
\* .title textContent and .card-full-content innerHTML of a card
Title(c) == c
FullContent(c) == <<c>>

\* the open sequence shared by the read-more and the card handlers
OpenModal(c) ==
    /\ modalTitle' = Title(c)
    /\ modalContent' = FullContent(c)
    /\ modalDisplay' = "block"
    /\ bodyOverflow' = "hidden"

\* the click handler of initExpandButtons on the card's .card-text
ToggleCardText(t) ==
    IF t.maxHeight = "150px" \/ t.maxHeight = ""
    THEN [maxHeight |-> "none", overflow |-> "visible", label |-> "Show Less"]
    ELSE [maxHeight |-> "150px", overflow |-> "hidden", label |-> "Read More"]

\* the record of the last two modal clicks
Trail(ev, arg) ==
    LET r == [ev |-> ev, arg |-> arg]
    IN  IF Len(modalTrail) < 2
        THEN Append(modalTrail, r) ELSE <<modalTrail[2], r>>

\* mutant: no card is exempt from opening on a bare click
CardNeverExempt(c) == FALSE

\* card.getAttribute('data-card') === 'data-distribution'
CardIsExempt(c) == DataCard(c) = "data-distribution"

\* mutant: the read-more listener lets the click bubble to the card
ReadMorePropagates == FALSE

\* e.stopPropagation() in the read-more listener
ReadMoreStopsPropagation == TRUE

\* click on the .read-more-btn of card c: the listener of initCardModals
\* stops propagation and opens the modal, the listener of
\* initExpandButtons (when registered) toggles the card text; a click that
\* bubbled would reach the card listener and the window listener
ClickReadMore(c) ==
    /\ lastEvent' = "ClickReadMore"
    /\ "cardModals" \in wired
    /\ OpenModal(c)
    /\ cardText' = IF "expandButtons" \in wired
                   THEN [cardText EXCEPT ![c] = ToggleCardText(cardText[c])]
                   ELSE cardText
    /\ handlersRun' =
           {"readMore"}
               \cup (IF "expandButtons" \in wired THEN {"expand"} ELSE {})
               \cup (IF ReadMoreStopsPropagation
                     THEN {} ELSE {"card", "window"})
    /\ openRuns' = 1 + (IF ~ReadMoreStopsPropagation /\ ~CardIsExempt(c)
                        THEN 1 ELSE 0)
    /\ modalTrail' = Trail("ClickReadMore", c)
    /\ UNCHANGED <<imageModalDisplay, zoomedSrc>>
    /\ UNCHANGED <<pageVars, chartVars, tabVars, carouselVars, imageVars>>

\* click on card c outside its read-more button: skipped for the
\* data-distribution card; the window listener sees a non-modal target
ClickCard(c) ==
    /\ lastEvent' = "ClickCard"
    /\ "cardModals" \in wired
    /\ IF CardIsExempt(c)
       THEN UNCHANGED <<modalTitle, modalContent, modalDisplay, bodyOverflow>>
       ELSE OpenModal(c)
    /\ handlersRun' = {"card", "window"}
    /\ openRuns' = IF CardIsExempt(c) THEN 0 ELSE 1
    /\ modalTrail' = Trail("ClickCard", c)
    /\ UNCHANGED <<imageModalDisplay, zoomedSrc, cardText>>
    /\ UNCHANGED <<pageVars, chartVars, tabVars, carouselVars, imageVars>>

\* mutant: only the content modal is hidden
CloseAllModalsContentOnly ==
    /\ modalDisplay' = "none"
    /\ imageModalDisplay' = imageModalDisplay
    /\ bodyOverflow' = "auto"

\* mutant: every .modal element hidden, scrolling left as it was
CloseAllModalsKeepsLock ==
    /\ modalDisplay' = "none"
    /\ imageModalDisplay' = "none"
    /\ bodyOverflow' = bodyOverflow

\* every .modal element hidden, scrolling restored
CloseAllModals ==
    /\ modalDisplay' = "none"
    /\ imageModalDisplay' = "none"
    /\ bodyOverflow' = "auto"

\* click on a .close-modal button
ClickClose ==
    /\ lastEvent' = "ClickClose"
    /\ "cardModals" \in wired
    /\ CloseAllModals
    /\ handlersRun' = {"close", "window"}
    /\ openRuns' = 0
    /\ modalTrail' = Trail("ClickClose", 0)
    /\ UNCHANGED <<modalTitle, modalContent, zoomedSrc, cardText>>
    /\ UNCHANGED <<pageVars, chartVars, tabVars, carouselVars, imageVars>>

\* mutant: #imageModal does not carry the class 'modal'
HasModalClassContentOnly(m) == m = "content"

\* both overlay elements carry the class 'modal'
HasModalClass(m) == m \in {"content", "image"}

\* click whose target is the background of a modal element ("content" or
\* "image"): first the listener on #imageModal (when registered and the
\* target is #imageModal) hides the image modal and restores scrolling,
\* then the window listener closes every .modal
ClickBackground(m) ==
    /\ lastEvent' = "ClickBackground"
    /\ "cardModals" \in wired
    /\ LET own == m = "image" /\ "imageZoom" \in wired
       IN  /\ IF HasModalClass(m)
              THEN CloseAllModals
              ELSE /\ modalDisplay' = modalDisplay
                   /\ imageModalDisplay' =
                          IF own THEN "none" ELSE imageModalDisplay
                   /\ bodyOverflow' = IF own THEN "auto" ELSE bodyOverflow
           /\ handlersRun' =
                  (IF own THEN {"imageModal"} ELSE {}) \cup {"window"}
    /\ openRuns' = 0
    /\ modalTrail' = Trail("ClickBackground", m)
    /\ UNCHANGED <<modalTitle, modalContent, zoomedSrc, cardText>>
    /\ UNCHANGED <<pageVars, chartVars, tabVars, carouselVars, imageVars>>

\* img.src || img.dataset.src
ZoomSource(i) == IF imgSrc[i] # 0 THEN imgSrc[i] ELSE imgDataSrc[i]

\* click on zoomable image i (outside the cards, or inside the
\* data-distribution card whose card handler skips)
ClickZoomImage(i) ==
    /\ lastEvent' = "ClickZoomImage"
    /\ "imageZoom" \in wired
    /\ IsZoomable(i)
    /\ zoomedSrc' = ZoomSource(i)
    /\ imageModalDisplay' = "block"
    /\ bodyOverflow' = "hidden"
    /\ handlersRun' = {"zoom", "window"}
    /\ openRuns' = 0
    /\ modalTrail' = Trail("ClickZoomImage", i)
    /\ UNCHANGED <<modalDisplay, modalTitle, modalContent, cardText>>
    /\ UNCHANGED <<pageVars, chartVars, tabVars, carouselVars, imageVars>>

(***************************************************************************)
(* Lazy images.                                                            *)
(***************************************************************************)
\* the batches of entries the imageObserver callback can receive: target
\* and isIntersecting of each queued entry
ImageEntryBatches ==
    UNION {[1 .. n -> Images \X BOOLEAN] : n \in 1 .. MaxEntries}

\* number of intersecting entries of the batch whose target is image i
ImageIntersectingCount(entries, i) ==
    Cardinality({k \in DOMAIN entries : entries[k] = <<i, TRUE>>})

\* mutant: an image stays observed after its entry fired
ImagesStillObservedNoUnobserve(observed, entries) == observed

\* imageObserver.unobserve(img) for every image with an intersecting entry
ImagesStillObserved(observed, entries) ==
    {i \in observed : ImageIntersectingCount(entries, i) = 0}

\* the imageObserver callback: every intersecting entry marks its image
\* loading, starts a temporary Image on data-src and unobserves the image
ImageObserverCallback(entries) ==
    /\ lastEvent' = "ImageObserverCallback"
    /\ "imageLazyLoading" \in wired
    /\ \A k \in DOMAIN entries : entries[k][1] \in imgObserved
    /\ imgClass' = [i \in Images |->
                      IF ImageIntersectingCount(entries, i) > 0
                      THEN imgClass[i] \cup {"loading"} ELSE imgClass[i]]
    /\ imgPending' = [i \in Images |->
                        imgPending[i] + ImageIntersectingCount(entries, i)]
    /\ imgFetchStarts' = [i \in Images |->
                            imgFetchStarts[i]
                            + ImageIntersectingCount(entries, i)]
    /\ imgObserved' = ImagesStillObserved(imgObserved, entries)
    /\ UNCHANGED <<imgSrc, imgDataSrc, imgRemoveCalls>>
    /\ UNCHANGED <<pageVars, chartVars, tabVars, carouselVars, modalVars>>

\* tempImg.onload for image i; -1 stands for the source a missing data-src
\* yields
ImageLoaded(i) ==
    /\ lastEvent' = "ImageLoaded"
    /\ imgPending[i] > 0
    /\ imgPending' = [imgPending EXCEPT ![i] = @ - 1]
    /\ imgSrc' = [imgSrc EXCEPT
                     ![i] = IF imgDataSrc[i] = 0 THEN -1 ELSE imgDataSrc[i]]
    /\ imgClass' = [imgClass EXCEPT ![i] = (@ \ {"loading"}) \cup {"loaded"}]
    /\ imgDataSrc' = [imgDataSrc EXCEPT ![i] = 0]
    /\ imgRemoveCalls' = [imgRemoveCalls EXCEPT ![i] = @ + 1]
    /\ UNCHANGED <<imgObserved, imgFetchStarts>>
    /\ UNCHANGED <<pageVars, chartVars, tabVars, carouselVars, modalVars>>

\* the temporary Image of image i fails to load: no handler is registered
ImageFailed(i) ==
    /\ lastEvent' = "ImageFailed"
    /\ imgPending[i] > 0
    /\ imgPending' = [imgPending EXCEPT ![i] = @ - 1]
    /\ UNCHANGED <<imgSrc, imgDataSrc, imgClass, imgObserved, imgFetchStarts,
                   imgRemoveCalls>>
    /\ UNCHANGED <<pageVars, chartVars, tabVars, carouselVars, modalVars>>

\* initImageLazyLoading(): with the intersection primitive every lazy image
\* is observed; without it every lazy image is loaded at once
InitImageLazyLoading ==
    IF hasIO
    THEN /\ imgObserved' = LazyImages
         /\ UNCHANGED <<imgSrc, imgDataSrc, imgClass, imgPending,
                        imgFetchStarts, imgRemoveCalls>>
    ELSE /\ imgSrc' = [i \in Images |->
                         IF i \in LazyImages THEN imgDataSrc[i] ELSE imgSrc[i]]
         /\ imgClass' = [i \in Images |->
                           IF i \in LazyImages
                           THEN imgClass[i] \cup {"loaded"} ELSE imgClass[i]]
         /\ imgDataSrc' = [i \in Images |->
                             IF i \in LazyImages THEN 0 ELSE imgDataSrc[i]]
         /\ imgRemoveCalls' = [i \in Images |->
                                 IF i \in LazyImages
                                 THEN imgRemoveCalls[i] + 1
                                 ELSE imgRemoveCalls[i]]
         /\ UNCHANGED <<imgObserved, imgPending, imgFetchStarts>>

(***************************************************************************)
(* Page-ready wiring.                                                      *)
(***************************************************************************)
\* the init functions that register something on this page
AllInits ==
    {"smoothScrolling", "cardModals", "scrollAnimations", "imageLazyLoading",
     "imageZoom", "expandButtons"}
        \cup (IF hasContainer THEN {"chartLazyLoading"} ELSE {})
        \cup (IF hasCarousel THEN {"carousel"} ELSE {})

\* the DOMContentLoaded handler: the init functions run in order;
\* initScrollAnimations constructs an IntersectionObserver unguarded, so
\* without the primitive it throws and the functions after it never run
DOMContentLoaded ==
    /\ lastEvent' = "DOMContentLoaded"
    /\ ~pageReady
    /\ pageReady' = TRUE
    /\ UNCHANGED hasIO
    /\ IF hasIO
       THEN /\ wired' = AllInits
            /\ chartObserved' = hasContainer
            /\ InitImageLazyLoading
            /\ InitFindingsCarousel
       ELSE /\ wired' = {"smoothScrolling", "cardModals"}
            /\ UNCHANGED <<chartObserved, imageVars, carouselVars>>
    /\ UNCHANGED <<hasContainer, hasLoadingEl, chartMounted, plotly, waiters,
                   loadStarts, newPlotCalls, pendingMounts, mountsResolved,
                   chartResizeListeners, resizeCalls, loadingDisplay>>
    /\ UNCHANGED <<tabVars, modalVars>>

(***************************************************************************)
(* Initial states: the page as delivered, before DOMContentLoaded.         *)
(***************************************************************************)
InitPage ==
    /\ pageReady = FALSE
    /\ hasIO \in BOOLEAN
    /\ wired = {}
    /\ lastEvent = "none"

InitChart ==
    /\ hasContainer \in BOOLEAN
    /\ hasLoadingEl \in BOOLEAN
    /\ chartMounted = FALSE
    /\ chartObserved = FALSE
    /\ plotly = "absent"
    /\ waiters = 0
    /\ loadStarts = 0
    /\ newPlotCalls = 0
    /\ pendingMounts = 0
    /\ mountsResolved = 0
    /\ chartResizeListeners = 0
    /\ resizeCalls = 0
    /\ loadingDisplay = ""

InitTabs ==
    /\ \E p \in Panels : visiblePanels = {p}
    /\ lastPanel = 0

\* the markup marks no indicator or one indicator active
InitCarousel ==
    /\ hasCarousel \in BOOLEAN
    /\ totalItems \in 1 .. MaxItems
    /\ currentIndex = 0
    /\ translateX = 0
    /\ activeIndicators \in {{}} \cup {{i} : i \in 0 .. (totalItems - 1)}
    /\ clicks = <<>>

InitModals ==
    /\ modalDisplay = ""
    /\ imageModalDisplay = ""
    /\ bodyOverflow = ""
    /\ modalTitle = 0
    /\ modalContent = <<>>
    /\ zoomedSrc = 0
    /\ cardText = [c \in Cards |->
                     [maxHeight |-> "", overflow |-> "", label |-> "Read More"]]
    /\ modalTrail = <<>>
    /\ handlersRun = {}
    /\ openRuns = 0

InitImages ==
    /\ imgSrc = [i \in Images |-> IF IsLazy(i) THEN 0 ELSE i]
    /\ imgDataSrc = [i \in Images |-> IF IsLazy(i) THEN i ELSE 0]
    /\ imgClass = [i \in Images |-> {}]
    /\ imgObserved = {}
    /\ imgPending = [i \in Images |-> 0]
    /\ imgFetchStarts = [i \in Images |-> 0]
    /\ imgRemoveCalls = [i \in Images |-> 0]

Init ==
    /\ InitPage
    /\ InitChart
    /\ InitTabs
    /\ InitCarousel
    /\ InitModals
    /\ InitImages

\* the default page of the parts a specification leaves alone
PlainChart == hasContainer /\ hasLoadingEl
PlainTabs == visiblePanels = {ChartPanel}
PlainCarousel == hasCarousel /\ totalItems = 1 /\ activeIndicators = {0}

(***************************************************************************)
(* Specifications, one per controller.                                     *)
(***************************************************************************)
NextChart ==
    \/ DOMContentLoaded
    \/ \E entries \in EntryBatches : ChartObserverCallback(entries)
    \/ LoadPlotlyResolved
    \/ LoadPlotlyRejected
    \/ NewPlotResolved
    \/ NewPlotRejected
    \/ WindowResize
    \/ \E p \in 0 .. NumPanels : TabActivate(p)

InitChartSpec == Init /\ PlainCarousel
SpecChart == InitChartSpec /\ [][NextChart]_vars

NextCarousel ==
    \/ DOMContentLoaded
    \/ ClickPrev
    \/ ClickNext
    \/ \E index \in 0 .. (MaxItems - 1) : ClickIndicator(index)

InitCarouselSpec == Init /\ PlainChart /\ PlainTabs
SpecCarousel == InitCarouselSpec /\ [][NextCarousel]_vars

NextModal ==
    \/ DOMContentLoaded
    \/ \E c \in Cards : ClickReadMore(c)
    \/ \E c \in Cards : ClickCard(c)
    \/ ClickClose
    \/ \E m \in {"content", "image"} : ClickBackground(m)
    \/ \E i \in Images : ClickZoomImage(i)

InitModalSpec == Init /\ PlainChart /\ PlainTabs /\ PlainCarousel
SpecModal == InitModalSpec /\ [][NextModal]_vars

NextImages ==
    \/ DOMContentLoaded
    \/ \E entries \in ImageEntryBatches : ImageObserverCallback(entries)
    \/ \E i \in Images : ImageLoaded(i)
    \/ \E i \in Images : ImageFailed(i)

InitImagesSpec == Init /\ PlainChart /\ PlainTabs /\ PlainCarousel
SpecImages == InitImagesSpec /\ [][NextImages]_vars

\* the lazy images together with the image-zoom viewer
NextZoom ==
    \/ DOMContentLoaded
    \/ \E entries \in ImageEntryBatches : ImageObserverCallback(entries)
    \/ \E i \in Images : ImageLoaded(i)
    \/ \E i \in Images : ImageFailed(i)
    \/ \E i \in Images : ClickZoomImage(i)
    \/ \E m \in {"content", "image"} : ClickBackground(m)

InitZoomSpec == Init /\ PlainChart /\ PlainTabs /\ PlainCarousel
SpecZoom == InitZoomSpec /\ [][NextZoom]_vars

Next ==
    \/ NextChart
    \/ NextCarousel
    \/ NextModal
    \/ NextImages

Spec == Init /\ [][Next]_vars

(***************************************************************************)
(* Claims about the chart bootstrapper, checked under SpecChart.           *)
(***************************************************************************)
\* C1: the Chart Mount Flag never returns from true to false over any
\* sequence of visibility notifications, tab activations, resize events and
\* load or mount completions; being a boolean that starts false, it
\* therefore changes from false to true at most once.
C1_MountFlagSetOnceForGood == [][chartMounted => chartMounted']_vars

\* C1 witness: the flag is set and a later mount completion has been
\* handled after it.
C1_Witness ==
    /\ chartMounted
    /\ newPlotCalls = 2
    /\ pendingMounts = 0
    /\ lastEvent \in {"NewPlotResolved", "NewPlotRejected"}

\* C2: the library load and the mount call (Plotly.newPlot) are each
\* started at most once per page lifetime.
C2_ChartConstructedAtMostOnce == loadStarts <= 1 /\ newPlotCalls <= 1

\* C3: a resize event or resize request handled while the Chart Mount Flag
\* is false makes no Plotly.Plots.resize call.
C3_NoResizeCallWhileUnmounted ==
    [][~chartMounted => resizeCalls' = resizeCalls]_vars

\* C3 witness: a window resize event has just been handled with the flag
\* false, the library present and the mount call in flight.
C3_Witness ==
    /\ lastEvent = "WindowResize"
    /\ ~chartMounted
    /\ plotly = "present"
    /\ pendingMounts > 0
    /\ chartResizeListeners > 0

\* C4: whenever the Chart Mount Flag is true, the library load completed
\* and a mount call resolved; with no resolved mount call the flag is false.
C4_FlagOnlyAfterMountResolved ==
    chartMounted => (plotly = "present" /\ mountsResolved >= 1)

\* C4 witness: the mount call has just resolved and set the flag.
C4_Witness == chartMounted /\ lastEvent = "NewPlotResolved"

\* C5: whenever the chart's loading indicator is hidden, the mount call has
\* resolved and the Chart Mount Flag is set.
C5_LoadingHiddenOnlyWhenMounted ==
    loadingDisplay = "none" => (chartMounted /\ mountsResolved >= 1)

(***************************************************************************)
(* Claims about the carousel, checked under SpecCarousel.                  *)
(***************************************************************************)
\* C6: the carousel cursor is an integer in [0, totalItems) in every
\* reachable state.
C6_CursorInRange == currentIndex \in 0 .. (totalItems - 1)

\* C6 witness: prev has just wrapped from 0 in a carousel of several items.
C6_Witness ==
    /\ lastEvent = "ClickPrev"
    /\ totalItems > 1
    /\ Len(clicks) > 0
    /\ clicks[Len(clicks)].from = 0
    /\ currentIndex = totalItems - 1

\* C7: once the carousel is initialized, exactly one indicator is active
\* and it is the one at the cursor.
C7_ActiveIndicatorIsCursor ==
    "carousel" \in wired =>
        /\ Cardinality(activeIndicators) = 1
        /\ activeIndicators = {currentIndex}

\* C7 witness: right after initialization, before any click, in a carousel
\* of several items.
C7_Witness ==
    /\ "carousel" \in wired
    /\ lastEvent = "DOMContentLoaded"
    /\ clicks = <<>>
    /\ totalItems > 1
    /\ activeIndicators = {0}

\* C8: after each update the track's leftward translation, in percent,
\* equals cursor * 90.
C8_OffsetIsCursorTimes90 ==
    "carousel" \in wired => translateX = currentIndex * 90

\* C8 witness: an update has moved the track off its initial position.
C8_Witness ==
    /\ "carousel" \in wired
    /\ currentIndex = 12
    /\ translateX = 1080

\* C9: in a carousel of 13 items, next() then prev() restores the cursor,
\* and goTo(0) then prev() leaves the cursor where goTo(12) puts it.
C9_NextPrevRoundTrip ==
    (totalItems = 13 /\ Len(clicks) = 2 /\ clicks[2].op = "prev") =>
        /\ clicks[1].op = "next" => currentIndex = clicks[1].from
        /\ (clicks[1].op = "goTo" /\ clicks[1].arg = 0) =>
               currentIndex = totalItems - 1

\* C9 witness: next() wrapped from 12 to 0 and prev() brought the cursor
\* back to 12.
C9_Witness ==
    /\ totalItems = 13
    /\ Len(clicks) = 2
    /\ clicks[1].op = "next"
    /\ clicks[1].from = 12
    /\ clicks[2].op = "prev"
    /\ clicks[2].from = 0
    /\ currentIndex = 12

(***************************************************************************)
(* Claims about the modals, checked under SpecModal.                       *)
(***************************************************************************)
\* C10: at most one overlay surface (content modal or image-zoom modal) is
\* visibly open in every reachable state.
C10_AtMostOneOverlayOpen ==
    ~(modalDisplay = "block" /\ imageModalDisplay = "block")

\* a recorded click that ran the modal open sequence: a read-more click, or
\* a bare click on a card that is not the data-distribution card
IsOpenClick(r) ==
    \/ r.ev = "ClickReadMore"
    \/ r.ev = "ClickCard" /\ DataCard(r.arg) # "data-distribution"

\* a recorded click that ran the close-all sequence
IsCloseClick(r) == r.ev \in {"ClickClose", "ClickBackground"}

\* C11: after open(t1,c1) and then open(t2,c2) with no close in between,
\* exactly one surface is open and it shows title t2 and body c2 alone.
C11_SecondOpenOverwrites ==
    (/\ Len(modalTrail) = 2
     /\ IsOpenClick(modalTrail[1])
     /\ IsOpenClick(modalTrail[2])) =>
        /\ modalDisplay = "block"
        /\ imageModalDisplay # "block"
        /\ modalTitle = modalTrail[2].arg
        /\ modalContent = <<modalTrail[2].arg>>

\* C12: a close-all leaves no overlay visible and the scroll-lock cleared,
\* and a close-all that follows a close-all changes nothing of the modal
\* state.
C12_CloseAllIdempotent ==
    [][lastEvent' \in {"ClickClose", "ClickBackground"} =>
          /\ modalDisplay' = "none"
          /\ imageModalDisplay' = "none"
          /\ bodyOverflow' = "auto"
          /\ lastEvent \in {"ClickClose", "ClickBackground"} =>
                 UNCHANGED <<modalDisplay, imageModalDisplay, bodyOverflow,
                             modalTitle, modalContent, zoomedSrc, cardText>>
      ]_vars

\* C12 witness: two close-alls in a row after the modal had been opened.
C12_Witness ==
    /\ Len(modalTrail) = 2
    /\ IsCloseClick(modalTrail[1])
    /\ IsCloseClick(modalTrail[2])
    /\ modalTitle # 0
    /\ modalDisplay = "none"
    /\ imageModalDisplay = "none"
    /\ bodyOverflow = "auto"

\* C13: whenever an overlay surface is visible the page scroll is locked;
\* no close path unlocks the scroll and leaves a surface visible.
C13_NoUnlockWhileVisible ==
    (modalDisplay = "block" \/ imageModalDisplay = "block") =>
        bodyOverflow = "hidden"

\* C13 witness: with both overlays open, a click on the image modal's
\* background has cleared the scroll-lock and hidden both.
C13_Witness ==
    /\ Len(modalTrail) = 2
    /\ modalTrail[1].ev = "ClickZoomImage"
    /\ modalTrail[2].ev = "ClickBackground"
    /\ modalTrail[2].arg = "image"
    /\ modalTitle # 0
    /\ "imageModal" \in handlersRun
    /\ bodyOverflow = "auto"
    /\ modalDisplay = "none"
    /\ imageModalDisplay = "none"

\* C14: a click on a read-more button runs the modal open sequence exactly
\* once and never reaches the card-level listener, whatever the card.
C14_ReadMoreOpensOnce ==
    lastEvent = "ClickReadMore" =>
        /\ openRuns = 1
        /\ "card" \notin handlersRun

\* C14 witness: a read-more click on a card that is not exempt, both of
\* the button's listeners having run.
C14_Witness ==
    /\ lastEvent = "ClickReadMore"
    /\ DataCard(modalTrail[Len(modalTrail)].arg) # "data-distribution"
    /\ handlersRun = {"readMore", "expand"}
    /\ modalDisplay = "block"

C16_LazyImageLifecycle ==
    \A i \in LazyImages :
        /\ imgFetchStarts[i] = 0 => (imgDataSrc[i] = i /\ imgSrc[i] = 0)
        /\ "loaded" \in imgClass[i] =>
               /\ imgSrc[i] = i
               /\ "loading" \notin imgClass[i]
               /\ imgDataSrc[i] = 0
               /\ imgRemoveCalls[i] = 1

\* C17: for every lazy image a fetch is started at most once, and a loaded
\* image does not carry the loading flag again.
C17_FetchStartedAtMostOnce ==
    \A i \in LazyImages :
        /\ imgFetchStarts[i] <= 1
        /\ "loaded" \in imgClass[i] => "loading" \notin imgClass[i]

\* C18: once the page-ready wiring has run without the intersection
\* primitive, every lazy image has its real source, is marked loaded and
\* not loading, and has lost its data-src attribute.
C18_FallbackLoadsEveryImage ==
    (pageReady /\ ~hasIO) =>
        \A i \in LazyImages :
            /\ imgSrc[i] = i
            /\ imgClass[i] = {"loaded"}
            /\ imgDataSrc[i] = 0

(***************************************************************************)
(* Further claims about the chart and the tabs, checked under SpecChart.   *)
(***************************************************************************)
\* C19: once the on-demand library load has failed, the loading indicator
\* is still visible, the Chart Mount Flag is false, no mount call has been
\* made, nothing waits on or can restart the load, and all of this stays so
\* after every later event.
C19_FailedLoadIsFinal ==
    /\ [](plotly = "failed" =>
             /\ loadingDisplay # "none"
             /\ ~chartMounted
             /\ newPlotCalls = 0
             /\ loadStarts = 1
             /\ waiters = 0
             /\ ~chartObserved)
    /\ [][plotly = "failed" => plotly' = "failed"]_vars

\* C19 witness: the load has failed and a later resize event has been
\* handled, the page having a loading indicator.
C19_Witness ==
    /\ plotly = "failed"
    /\ hasLoadingEl
    /\ lastEvent = "WindowResize"

\* C20: after activate(p) for a known panel p, exactly one panel is visible
\* and it is p.
C20_ActivatedPanelAloneVisible ==
    (lastEvent = "TabActivate" /\ lastPanel \in Panels) =>
        /\ Cardinality(visiblePanels) = 1
        /\ visiblePanels = {lastPanel}

\* C20 witness: a panel other than the chart's has just been activated.
C20_Witness ==
    /\ lastEvent = "TabActivate"
    /\ lastPanel \in Panels
    /\ lastPanel # ChartPanel
    /\ visiblePanels = {lastPanel}

(***************************************************************************)
(* Further claims about the lazy images, checked under SpecImages.         *)
(***************************************************************************)
\* C21: a lazy image whose fetch has been started and has not completed
\* successfully carries the loading flag and not the loaded flag, keeps
\* its data-src attribute and is no longer observed; and once a fetch has
\* been started for an image no later step starts another.
C21_UnloadedImageStaysLoading ==
    /\ [](\A i \in LazyImages :
             (imgFetchStarts[i] > 0 /\ "loaded" \notin imgClass[i]) =>
                 /\ "loading" \in imgClass[i]
                 /\ imgDataSrc[i] = i
                 /\ imgSrc[i] = 0
                 /\ i \notin imgObserved)
    /\ [][\A i \in LazyImages :
             imgFetchStarts[i] > 0 => imgFetchStarts'[i] = imgFetchStarts[i]]_vars

\* C21 witness: every fetch of image 1 has failed, and a later visibility
\* notification (for another image) has been handled.
C21_Witness ==
    /\ imgFetchStarts[1] > 0
    /\ imgPending[1] = 0
    /\ "loaded" \notin imgClass[1]
    /\ lastEvent = "ImageObserverCallback"

(***************************************************************************)
(* Further claim about the overlays, checked under SpecModal.              *)
(***************************************************************************)
\* C22: whenever the page scroll-lock is set, the content modal or the
\* image-zoom modal is visible.
C22_LockedOnlyWhileOverlayOpen ==
    bodyOverflow = "hidden" =>
        (modalDisplay = "block" \/ imageModalDisplay = "block")

\* C22 witness: an overlay was closed and the page is locked again by a
\* later open.
C22_Witness ==
    /\ Len(modalTrail) = 2
    /\ IsCloseClick(modalTrail[1])
    /\ IsOpenClick(modalTrail[2])
    /\ bodyOverflow = "hidden"

(***************************************************************************)
(* Further claim about the chart's resize listeners, under SpecChart.      *)
(***************************************************************************)
\* C23: the resize listeners registered by renderGlobalChart are as many
\* as its runs with a container present, and once the chart is mounted a
\* single window-resize event issues exactly two library resize calls.
C23_TwoResizeCallsPerEvent ==
    /\ [](chartResizeListeners = newPlotCalls)
    /\ [][(chartMounted /\ lastEvent' = "WindowResize") =>
             resizeCalls' = resizeCalls + 2]_vars

====
